---- MODULE Spec2Model ----
(***************************************************************************)
(* choice-string: a parser for choice strings ("all", "none", "1 3 5-9")   *)
(* and the normalisation of the parsed element list by range union.        *)
(*                                                                         *)
(* Texts are sequences of one-character strings.  The nom combinators of   *)
(* src/src/parser.rs are operators over such sequences that return an      *)
(* IResult record; parse_raw, from_str, parse, condense_selections and     *)
(* contains_item of src/src/lib.rs are operators over those results.       *)
(***************************************************************************)
EXTENDS Integers, Sequences, FiniteSets, TLC

(***************************************************************************)
(* Bounds of the model.                                                    *)
(***************************************************************************)
\* longest text over CoreAlphabet or SeparatorAlphabet that is parsed
MaxLen == 5
\* longest tail appended to a (prefix of a) keyword in any letter case
MaxSuffix == 1
\* width of usize in the model: USIZE_MAX = 2^UsizeBits - 1
UsizeBits == 5
\* longest element list handed to condense_selections directly
MaxElems == 2
\* largest number in an element list handed to condense_selections directly
MaxNum == 4

USIZE_MAX == 2 ^ UsizeBits - 1

(***************************************************************************)
(* Characters and texts.                                                   *)
(***************************************************************************)
DigitChars == {"0", "1", "2", "3", "4", "5", "6", "7", "8", "9"}

DigitValue(c) ==
    CASE c = "0" -> 0 [] c = "1" -> 1 [] c = "2" -> 2 [] c = "3" -> 3
      [] c = "4" -> 4 [] c = "5" -> 5 [] c = "6" -> 6 [] c = "7" -> 7
      [] c = "8" -> 8 [] c = "9" -> 9

\* char::to_lowercase on the letters the keywords can match
to_lowercase(c) ==
    CASE c = "A" -> "a" [] c = "L" -> "l" [] c = "N" -> "n"
      [] c = "O" -> "o" [] c = "E" -> "e" [] OTHER -> c

to_uppercase(c) ==
    CASE c = "a" -> "A" [] c = "l" -> "L" [] c = "n" -> "N"
      [] c = "o" -> "O" [] c = "e" -> "E" [] OTHER -> c

Take(s, n) == SubSeq(s, 1, n)
Drop(s, n) == SubSeq(s, n + 1, Len(s))

\* length of the longest prefix of s whose characters are all in S
SpanLen(s, S) ==
    IF \A k \in 1..Len(s) : s[k] \in S
    THEN Len(s)
    ELSE (CHOOSE k \in 1..Len(s) :
              s[k] \notin S /\ \A j \in 1..(k - 1) : s[j] \in S) - 1

(***************************************************************************)
(* The data model of src/src/lib.rs.                                       *)
(***************************************************************************)
Individual(num) == [variant |-> "Individual", start |-> num, end |-> num]
Range(lo, hi) == [variant |-> "Range", start |-> lo, end |-> hi]

SelectionAll == [sel |-> "All", v |-> <<>>]
SelectionNone == [sel |-> "None", v |-> <<>>]
SelectionSome(v) == [sel |-> "Some", v |-> v]

\* Result<Selection, Error>, or the panic of the call
ResOk(s) == [res |-> "Ok", value |-> s, kind |-> ""]
ResErr(kind) == [res |-> "Err", value |-> SelectionNone, kind |-> kind]
ResPanic(msg) == [res |-> "Panic", value |-> SelectionNone, kind |-> msg]
Pending == [res |-> "Pending", value |-> SelectionNone, kind |-> ""]

\* RangeInclusive::contains
range_contains(e, item) == e.start <= item /\ item <= e.end

\* RangeInclusive::is_empty
range_is_empty(e) == e.start > e.end

contains_item(s, item) ==
    CASE s.sel = "Some" ->
             \E k \in 1..Len(s.v) :
                 IF s.v[k].variant = "Individual"
                 THEN item = s.v[k].start
                 ELSE range_contains(s.v[k], item)
      [] s.sel = "All" -> TRUE
      [] s.sel = "None" -> FALSE

(***************************************************************************)
(* nom: IResult and the combinators the parser uses.                       *)
(***************************************************************************)
Ok(rest, out) == [tag |-> "Ok", rest |-> rest, out |-> out, code |-> ""]
Error(code) == [tag |-> "Error", rest |-> <<>>, out |-> <<>>, code |-> code]
Failure(code) == [tag |-> "Failure", rest |-> <<>>, out |-> <<>>, code |-> code]

eof(input) == IF Len(input) = 0 THEN Ok(input, <<>>) ELSE Error("Eof")

tag(t, input) ==
    IF Len(input) >= Len(t) /\ Take(input, Len(t)) = t
    THEN Ok(Drop(input, Len(t)), t)
    ELSE Error("Tag")

\* tag in place of tag_no_case: the keyword is compared letter for letter
tag_case_sensitive(t, input) == tag(t, input)

tag_no_case(t, input) ==
    IF /\ Len(input) >= Len(t)
       /\ \A k \in 1..Len(t) : to_lowercase(input[k]) = to_lowercase(t[k])
    THEN Ok(Drop(input, Len(t)), Take(input, Len(t)))
    ELSE Error("Tag")

digit1(input) ==
    LET n == SpanLen(input, DigitChars)
    IN  IF n = 0 THEN Error("Digit") ELSE Ok(Drop(input, n), Take(input, n))

space1(input) ==
    LET n == SpanLen(input, {" ", "\t"})
    IN  IF n = 0 THEN Error("Space") ELSE Ok(Drop(input, n), Take(input, n))

is_a(S, input) ==
    LET n == SpanLen(input, S)
    IN  IF n = 0 THEN Error("IsA") ELSE Ok(Drop(input, n), Take(input, n))

\* cut: a recoverable Error becomes an unrecoverable Failure
cut(r) == IF r.tag = "Error" THEN Failure(r.code) ELSE r

\* complete: Incomplete becomes Error; everything else is passed on
complete(r) == IF r.tag = "Incomplete" THEN Error("Complete") ELSE r

\* alt: the next alternative is tried on Error only; when all fail the
\* error of the last alternative is returned
alt2(r1, r2) == IF r1.tag = "Error" THEN r2 ELSE r1
alt3(r1, r2, r3) == alt2(r1, alt2(r2, r3))

\* usize::from_str on a non-empty digit string: checked multiply and add,
\* -1 standing for Err(PosOverflow)
RECURSIVE checked_digits(_, _)
checked_digits(s, acc) ==
    IF s = <<>> THEN acc
    ELSE IF acc * 10 + DigitValue(Head(s)) > USIZE_MAX THEN -1
    ELSE checked_digits(Tail(s), acc * 10 + DigitValue(Head(s)))

usize_from_str(s) == checked_digits(s, 0)

\* map_res(p, usize::from_str) applied to the result r of p
map_res(r) ==
    IF r.tag # "Ok" THEN r
    ELSE IF usize_from_str(r.out) < 0 THEN Error("MapRes")
    ELSE Ok(r.rest, usize_from_str(r.out))

\* map(p, |_| value) applied to the result r of p
map_to(r, value) == IF r.tag # "Ok" THEN r ELSE Ok(r.rest, value)

\* the texts a parser can be handed while input is parsed
Suffixes(input) == {Drop(input, n) : n \in 0..Len(input)}

\* many1(f), with f given as the function from the remaining text to f's
\* result: Error on the first application fails; a later Error ends the
\* repetition; Failure is passed on; an application after the first that
\* consumes nothing is an error
RECURSIVE many1_loop(_, _, _)
many1_loop(f, i, acc) ==
    LET r == f[i]
    IN  IF r.tag = "Error" THEN Ok(i, acc)
        ELSE IF r.tag # "Ok" THEN r
        ELSE IF Len(r.rest) = Len(i) THEN Error("Many1")
        ELSE many1_loop(f, r.rest, Append(acc, r.out))

many1(f, i) ==
    LET r == f[i]
    IN  IF r.tag = "Error" THEN Error(r.code)
        ELSE IF r.tag # "Ok" THEN r
        ELSE many1_loop(f, r.rest, <<r.out>>)

(***************************************************************************)
(* The grammar of src/src/parser.rs.                                       *)
(***************************************************************************)
\* tuple((tag_no_case("none"), cut(eof))), after the tag
none_literal_eof(t) == IF t.tag # "Ok" THEN t ELSE cut(eof(t.rest))

none_literal(input) ==
    map_to(none_literal_eof(tag_no_case(<<"n", "o", "n", "e">>, input)),
           SelectionNone)

select_none(input) ==
    alt2(map_to(eof(input), SelectionNone), none_literal(input))

\* map(.., SomeElementType::Individual) applied to the result n of the number
map_individual(n) ==
    IF n.tag # "Ok" THEN n ELSE Ok(n.rest, Individual(n.out))

individual_element(input) == map_individual(map_res(digit1(input)))

\* the tuple of range_element after its third parser, mapped to the Range
range_element_end(start, e) ==
    IF e.tag # "Ok" THEN e ELSE Ok(e.rest, Range(start, e.out))

\* the tuple of range_element after its second parser
range_element_dash(start, d) ==
    IF d.tag # "Ok" THEN d
    ELSE range_element_end(start, map_res(cut(digit1(d.rest))))

\* the tuple of range_element after its first parser
range_element_start(s) ==
    IF s.tag # "Ok" THEN s
    ELSE range_element_dash(s.out, is_a({"-"}, s.rest))

range_element(input) == range_element_start(map_res(digit1(input)))

\* alt((individual_element, range_element)): the alternatives swapped
some_element_individual_first(input) ==
    alt2(individual_element(input), range_element(input))

some_element(input) == alt2(range_element(input), individual_element(input))

\* alt((tag(","), tag(";"), space1)), the parser many1 repeats
separator_token(input) ==
    alt3(tag(<<",">>, input), tag(<<";">>, input), space1(input))

element_separator(input) ==
    alt2(map_to(many1([i \in Suffixes(input) |-> separator_token(i)], input),
                <<>>),
         eof(input))

\* tuple((some_element, element_separator)) after the element, mapped to it
separated_element_rest(e) ==
    IF e.tag # "Ok" THEN e ELSE map_to(element_separator(e.rest), e.out)

separated_element(input) == separated_element_rest(some_element(input))

\* tuple((many1(..), eof)) after many1, mapped to Selection::Some
select_some_eof(m) ==
    IF m.tag # "Ok" THEN m ELSE map_to(eof(m.rest), SelectionSome(m.out))

select_some(input) ==
    select_some_eof(
        many1([i \in Suffixes(input) |-> separated_element(i)], input))

\* tuple((tag_no_case("all"), cut(eof))), after the tag
select_all_eof(t) == IF t.tag # "Ok" THEN t ELSE cut(eof(t.rest))

select_all(input) ==
    map_to(select_all_eof(tag_no_case(<<"a", "l", "l">>, input)), SelectionAll)

selection(input) ==
    complete(alt3(select_none(input), select_all(input), select_some(input)))

\* the match of parser::parse on the result r of selection
parse_match(r) ==
    IF r.tag = "Ok" THEN ResOk(r.out)
    ELSE IF r.tag = "Failure" THEN ResErr(r.code)
    ELSE ResPanic("Internal parser error")

\* parser::parse, exported as parse_raw
parse_raw(input) == parse_match(selection(input))

(***************************************************************************)
(* Normalisation, src/src/lib.rs.                                          *)
(***************************************************************************)
Min(a, b) == IF a <= b THEN a ELSE b
Max(a, b) == IF a >= b THEN a ELSE b

\* num..num in place of num..=num: an individual becomes an empty range
to_range_exclusive(a) ==
    IF a.variant = "Individual" THEN [start |-> a.start, end |-> a.start - 1]
    ELSE [start |-> a.start, end |-> a.end]

\* the closed range an element stands for
to_range(a) ==
    IF a.variant = "Individual" THEN [start |-> a.start, end |-> a.start]
    ELSE [start |-> a.start, end |-> a.end]

\* the stored ranges that a overlaps or touches
touching(union, a) ==
    SelectSeq(union, LAMBDA r : ~(r.end + 1 < a.start) /\ ~(a.end + 1 < r.start))

\* a joined with the stored ranges mid it overlaps or touches
merged(a, mid) ==
    IF mid = <<>> THEN a
    ELSE [start |-> Min(a.start, mid[1].start),
          end |-> Max(a.end, mid[Len(mid)].end)]

\* IntRangeUnionFind: an ascending sequence of disjoint, non-adjacent
\* non-empty ranges.  insert_range merges the new range with every stored
\* range it overlaps or touches, and refuses an empty range.
insert_range(union, a) ==
    IF range_is_empty(a) THEN [ok |-> FALSE, union |-> union]
    ELSE [ok |-> TRUE,
          union |-> SelectSeq(union, LAMBDA r : r.end + 1 < a.start)
                        \o <<merged(a, touching(union, a))>>
                        \o SelectSeq(union, LAMBDA r : a.end + 1 < r.start)]

\* try_for_each(|a| union.insert_range(&a)) from the state r of the union:
\* stops at the first Err
RECURSIVE insert_all(_, _)
insert_all(r, ranges) ==
    IF ranges = <<>> \/ ~r.ok THEN r
    ELSE insert_all(insert_range(r.union, Head(ranges)), Tail(ranges))

\* IntRangeUnionFind::new()
new_union == [ok |-> TRUE, union |-> <<>>]

\* without the start == end test: every merged range stays a Range
to_element_always_range(a) == Range(a.start, a.end)

\* the element a merged range is returned as
to_element(a) ==
    IF a.start = a.end THEN Individual(a.start) ELSE Range(a.start, a.end)

\* iter().map(..) with the two conversions of condense_selections
to_ranges(v) == [k \in 1..Len(v) |-> to_range(v[k])]
to_elements(v) == [k \in 1..Len(v) |-> to_element(v[k])]

\* filter(|a| !a.is_empty())
non_empty(ranges) == SelectSeq(ranges, LAMBDA a : ~range_is_empty(a))

\* expect(..) on the outcome r of the insertions, then the collected list
expect_collect(r) ==
    IF r.ok THEN [panicked |-> FALSE, v |-> to_elements(r.union)]
    ELSE [panicked |-> TRUE, v |-> <<>>]

\* without the union: the non-empty ranges are returned as they came
condense_without_union(selections) ==
    [panicked |-> FALSE, v |-> to_elements(non_empty(to_ranges(selections)))]

\* take_while in place of filter: the first empty range ends the list
RECURSIVE until_empty(_)
until_empty(ranges) ==
    IF ranges = <<>> \/ range_is_empty(Head(ranges)) THEN <<>>
    ELSE <<Head(ranges)>> \o until_empty(Tail(ranges))

condense_until_empty(selections) ==
    expect_collect(insert_all(new_union, until_empty(to_ranges(selections))))

\* without the filter: an empty range reaches insert_range
condense_without_filter(selections) ==
    expect_collect(insert_all(new_union, to_ranges(selections)))

condense_selections(selections) ==
    expect_collect(insert_all(new_union, non_empty(to_ranges(selections))))

\* Selection::Some(condense_selections(v)) from the outcome c of the call
from_condensed(c) ==
    IF c.panicked THEN ResPanic("bad ranges - shouldn't happen is bug")
    ELSE ResOk(SelectionSome(c.v))

\* the match of from_str on the outcome r of parse_raw(s)?
from_str_match(r) ==
    IF r.res # "Ok" THEN r
    ELSE IF r.value.sel = "Some"
    THEN from_condensed(condense_selections(r.value.v))
    ELSE r

from_str(s) == from_str_match(parse_raw(s))

parse(input) == from_str(input)

(***************************************************************************)
(* Inputs.                                                                 *)
(***************************************************************************)
\* digits, the range dash, two separators and a letter no element contains
CoreAlphabet == {"0", "1", "2", "-", ",", " ", "a"}

\* every separator character, between and after the elements "1"
SeparatorAlphabet == {"1", ",", ";", " ", "\t"}

\* what may follow a keyword or a part of one
SuffixAlphabet == CoreAlphabet \cup {"l", "e"}

SeqsUpTo(S, n) == UNION {[1..k -> S] : k \in 0..n}

KeywordNone == <<"n", "o", "n", "e">>
KeywordAll == <<"a", "l", "l">>

\* every prefix of a keyword
KeywordStems ==
    UNION {{Take(w, n) : n \in 0..Len(w)} : w \in {KeywordNone, KeywordAll}}

\* every way of writing w in upper and lower case letters
CaseVariants(w) ==
    {[k \in 1..Len(w) |-> IF k \in up THEN to_uppercase(w[k]) ELSE w[k]] :
        up \in SUBSET (1..Len(w))}

KeywordTexts ==
    UNION {{c \o t : c \in CaseVariants(w),
                     t \in SeqsUpTo(SuffixAlphabet, MaxSuffix)} :
              w \in KeywordStems}

Texts ==
    SeqsUpTo(CoreAlphabet, MaxLen)
        \cup SeqsUpTo(SeparatorAlphabet, MaxLen)
        \cup KeywordTexts

Elements ==
    {Individual(n) : n \in 0..MaxNum}
        \cup {Range(lo, hi) : lo \in 0..MaxNum, hi \in 0..MaxNum}

NotCondensed == [called |-> FALSE, panicked |-> FALSE, v |-> <<>>]

\* the outcome c of a call of condense_selections, as the state keeps it
Returned(c) == [called |-> TRUE, panicked |-> c.panicked, v |-> c.v]

(***************************************************************************)
(* State.  entry is the interface the caller uses: "text" for the public   *)
(* parse_raw and parse on input, "list" for condense_selections on the     *)
(* element list selections.  raw, parsed and condensed are the outcomes of *)
(* the calls made so far.                                                  *)
(***************************************************************************)
VARIABLES entry, input, raw, parsed, selections, condensed

vars == <<entry, input, raw, parsed, selections, condensed>>

InitText ==
    /\ entry = "text"
    /\ input \in Texts
    /\ selections = <<>>

InitList ==
    /\ entry = "list"
    /\ input = <<>>
    /\ selections \in SeqsUpTo(Elements, MaxElems)

Init ==
    /\ InitText \/ InitList
    /\ raw = Pending
    /\ parsed = Pending
    /\ condensed = NotCondensed

CallParseRaw ==
    /\ entry = "text"
    /\ raw = Pending
    /\ raw' = parse_raw(input)
    /\ UNCHANGED <<entry, input, parsed, selections, condensed>>

CallParse ==
    /\ entry = "text"
    /\ parsed = Pending
    /\ parsed' = parse(input)
    /\ UNCHANGED <<entry, input, raw, selections, condensed>>

CallCondense ==
    /\ entry = "list"
    /\ ~condensed.called
    /\ condensed' = Returned(condense_selections(selections))
    /\ UNCHANGED <<entry, input, raw, parsed, selections>>

\* the caller holds the same elements in another order
Reorder ==
    /\ entry = "list"
    /\ \E i \in 1..(Len(selections) - 1) :
           selections' = [selections EXCEPT ![i] = selections[i + 1],
                                            ![i + 1] = selections[i]]
    /\ UNCHANGED <<entry, input, raw, parsed, condensed>>

Next == CallParseRaw \/ CallParse \/ CallCondense \/ Reorder

Spec == Init /\ [][Next]_vars

(***************************************************************************)
(* The grammar as the specification words it, read off the text directly:  *)
(* the text is cut at its separator characters into tokens, and a token is *)
(* a digit group or two digit groups around one dash.                      *)
(***************************************************************************)
Whitespace == {" ", "\t"}
SeparatorChars == {",", ";"} \cup Whitespace

Lowered(text) == [k \in 1..Len(text) |-> to_lowercase(text[k])]

\* the tokens of a text: its maximal runs of non-separator characters
RECURSIVE Tokens(_)
Tokens(text) ==
    IF text = <<>> THEN <<>>
    ELSE IF Head(text) \in SeparatorChars THEN Tokens(Tail(text))
    ELSE LET n == IF \E k \in 1..Len(text) : text[k] \in SeparatorChars
                  THEN (CHOOSE k \in 1..Len(text) :
                            /\ text[k] \in SeparatorChars
                            /\ \A j \in 1..(k - 1) : text[j] \notin SeparatorChars) - 1
                  ELSE Len(text)
         IN  <<Take(text, n)>> \o Tokens(Drop(text, n))

\* the decimal value of a digit string, by place value
RECURSIVE Pow10(_)
Pow10(n) == IF n = 0 THEN 1 ELSE 10 * Pow10(n - 1)

RECURSIVE PlaceValue(_)
PlaceValue(ds) ==
    IF ds = <<>> THEN 0
    ELSE DigitValue(Head(ds)) * Pow10(Len(ds) - 1) + PlaceValue(Tail(ds))

IsDigitGroup(tok) ==
    /\ tok # <<>>
    /\ \A k \in 1..Len(tok) : tok[k] \in DigitChars
    /\ PlaceValue(tok) <= USIZE_MAX

\* digit group, exactly one dash, digit group
IsRangeToken(tok) ==
    \E k \in 1..Len(tok) :
        /\ tok[k] = "-"
        /\ IsDigitGroup(Take(tok, k - 1))
        /\ IsDigitGroup(Drop(tok, k))

MatchesSomeForm(text) ==
    /\ text # <<>>
    /\ Head(text) \notin SeparatorChars
    /\ \A k \in 1..Len(Tokens(text)) :
           IsDigitGroup(Tokens(text)[k]) \/ IsRangeToken(Tokens(text)[k])

MatchesGrammar(text) ==
    \/ text = <<>>
    \/ Lowered(text) = KeywordNone
    \/ Lowered(text) = KeywordAll
    \/ MatchesSomeForm(text)

\* the element a token writes: the digits before its first dash and after
\* its last dash are the bounds of a range, a token without a dash is an
\* individual
FirstDash(tok) == CHOOSE k \in 1..Len(tok) : tok[k] = "-" /\ \A j \in 1..(k - 1) : tok[j] # "-"
LastDash(tok) == CHOOSE k \in 1..Len(tok) : tok[k] = "-" /\ \A j \in (k + 1)..Len(tok) : tok[j] # "-"

WrittenElement(tok) ==
    IF \E k \in 1..Len(tok) : tok[k] = "-"
    THEN Range(PlaceValue(Take(tok, FirstDash(tok) - 1)),
               PlaceValue(Drop(tok, LastDash(tok))))
    ELSE Individual(PlaceValue(tok))

Written(text) == [k \in 1..Len(Tokens(text)) |-> WrittenElement(Tokens(text)[k])]

\* the items membership is compared on
Items == 0..USIZE_MAX
ListItems == 0..(MaxNum + 1)

IsInverted(e) == e.variant = "Range" /\ e.start > e.end

\* strictly ascending by lower bound, pairwise disjoint and non-adjacent
IsCanonical(v) ==
    \A k \in 1..(Len(v) - 1) :
        /\ v[k].start < v[k + 1].start
        /\ v[k].end + 1 < v[k + 1].start

Orderings(n) == {p \in [1..n -> 1..n] : \A a, b \in 1..n : p[a] = p[b] => a = b}

Permuted(v, p) == [k \in 1..Len(v) |-> v[p[k]]]

\* a keyword in any letter case with at least one more character after it
KeywordAndMore(text, kw) ==
    Len(text) > Len(kw) /\ Lowered(Take(text, Len(kw))) = kw

\* a well-formed run of elements and separators, then at an element
\* position a digit group and a dash that no digit follows
DanglingRange(text) ==
    \E a \in 1..Len(text), b \in 1..Len(text) :
        /\ a <= b /\ b < Len(text)
        /\ \A k \in a..b : text[k] \in DigitChars
        /\ text[b + 1] = "-"
        /\ (b + 1 = Len(text) \/ text[b + 2] \notin DigitChars)
        /\ \/ a = 1
           \/ /\ text[a - 1] \in SeparatorChars
              /\ MatchesSomeForm(Take(text, a - 1))

\* every Range of the list has lo < hi
ProperRanges(v) == \A k \in 1..Len(v) : v[k].variant = "Range" => v[k].start < v[k].end

(***************************************************************************)
(* C1                                                                      *)
(***************************************************************************)
\* C1: normalisation preserves membership.  For every element list (any
\* order, duplicates, overlaps and inverted ranges allowed) and every item,
\* contains_item on the condensed list equals contains_item on the list, and
\* for every text parse_raw accepts, parse and parse_raw agree on every item.
C1_MembershipPreserved ==
    /\ condensed.called =>
           /\ ~condensed.panicked
           /\ \A i \in ListItems :
                  contains_item(SelectionSome(condensed.v), i)
                      = contains_item(SelectionSome(selections), i)
    /\ (raw.res = "Ok" /\ parsed # Pending) =>
           /\ parsed.res = "Ok"
           /\ \A i \in Items :
                  contains_item(parsed.value, i) = contains_item(raw.value, i)

\* two overlapping ranges, the later one first, condensed to their union
C1_Witness ==
    /\ condensed.called
    /\ Len(selections) = 2
    /\ selections[1].start < selections[1].end
    /\ selections[2].start < selections[2].end
    /\ selections[1].start > selections[2].start
    /\ Len(condensed.v) = 1
    /\ condensed.v[1] # selections[1]
    /\ condensed.v[1] # selections[2]

(***************************************************************************)
(* C2                                                                      *)
(***************************************************************************)
\* C2: canonical form.  Whenever parse returns Some(elements), and whenever
\* condense_selections returns, the elements are strictly ascending by lower
\* bound and for every two consecutive elements the upper bound of the first
\* plus 1 is strictly less than the lower bound of the second.
C2_CanonicalForm ==
    /\ (parsed.res = "Ok" /\ parsed.value.sel = "Some") =>
           IsCanonical(parsed.value.v)
    /\ condensed.called => IsCanonical(condensed.v)

\* three written elements, out of order, merged by parse into one
C2_Witness ==
    /\ raw.res = "Ok"
    /\ parsed.res = "Ok"
    /\ Len(raw.value.v) = 3
    /\ raw.value.v[1].start > raw.value.v[2].start
    /\ Len(parsed.value.v) = 1

(***************************************************************************)
(* C3                                                                      *)
(***************************************************************************)
\* C3: every grammar violation surfaces as the single error kind.  For every
\* text that does not match the grammar, parse_raw and parse return
\* Err(ParsingFailed(category)), and no text makes either of them panic.
C3_ViolationsAreParsingFailed ==
    /\ raw.res # "Panic"
    /\ parsed.res # "Panic"
    /\ (raw # Pending /\ ~MatchesGrammar(input)) => raw.res = "Err"
    /\ (parsed # Pending /\ ~MatchesGrammar(input)) => parsed.res = "Err"

(***************************************************************************)
(* C4                                                                      *)
(***************************************************************************)
\* C4: parse_raw returns Ok for a text if and only if the whole text matches
\* the grammar (empty, a keyword, or elements with exactly one dash in a
\* range, separated by separator runs, trailing separators allowed).
C4_AcceptsExactlyTheGrammar ==
    raw # Pending => (raw.res = "Ok" <=> MatchesGrammar(input))

(***************************************************************************)
(* C5                                                                      *)
(***************************************************************************)
KeywordOutcome(r) ==
    /\ (input = <<>> \/ Lowered(input) = KeywordNone) => r = ResOk(SelectionNone)
    /\ Lowered(input) = KeywordAll => r = ResOk(SelectionAll)
    /\ (KeywordAndMore(input, KeywordNone) \/ KeywordAndMore(input, KeywordAll)) =>
           r.res = "Err"

\* C5: keyword forms.  parse_raw and parse return Selection::None for the
\* empty text and for "none" in any letter case, Selection::All for "all" in
\* any letter case, and Err(ParsingFailed) for a keyword followed by any
\* further character.
C5_KeywordForms ==
    /\ raw # Pending => KeywordOutcome(raw)
    /\ parsed # Pending => KeywordOutcome(parsed)

\* "NoNe" followed by one more character is refused by both entry points
C5_Witness ==
    /\ Len(input) = 5
    /\ Take(input, 4) = <<"N", "o", "N", "e">>
    /\ raw.res = "Err"
    /\ parsed.res = "Err"

(***************************************************************************)
(* C6                                                                      *)
(***************************************************************************)
\* C6: parse_raw returns exactly what was written.  Every text of the some
\* form is accepted, and every accepted some-form text yields one element
\* per written element in the written order: a token with a dash is the
\* Range of its two numbers, unswapped, and a token without is an Individual.
C6_ParseRawKeepsWhatWasWritten ==
    raw # Pending =>
        /\ MatchesSomeForm(input) => raw = ResOk(SelectionSome(Written(input)))
        /\ (raw.res = "Ok" /\ raw.value.sel = "Some") =>
               raw.value.v = Written(input)

\* an inverted range followed by an individual inside its span, both kept
C6_Witness ==
    /\ raw.res = "Ok"
    /\ Len(raw.value.v) = 2
    /\ IsInverted(raw.value.v[1])
    /\ raw.value.v[2].variant = "Individual"
    /\ raw.value.v[2].start <= raw.value.v[1].start

(***************************************************************************)
(* C7                                                                      *)
(***************************************************************************)
\* C7: a dangling range is a committed failure.  For every text in which a
\* well-formed run of elements and separators is followed, at an element
\* position, by a digit group and a dash that no digit follows, parse_raw
\* and parse return Err(ParsingFailed) with the digit category.
C7_DanglingRangeFails ==
    /\ (raw # Pending /\ DanglingRange(input)) => raw = ResErr("Digit")
    /\ (parsed # Pending /\ DanglingRange(input)) => parsed = ResErr("Digit")

(***************************************************************************)
(* C8                                                                      *)
(***************************************************************************)
\* C8 as stated: every strictly ascending, pairwise disjoint, non-adjacent
\* list of Ranges and Individuals is returned by condense_selections
\* unchanged.
C8_MinimalInputRoundTrips ==
    (condensed.called /\ IsCanonical(selections)) => condensed.v = selections

\* C8 as amended: every strictly ascending, pairwise disjoint, non-adjacent
\* list of Ranges and Individuals in which every Range has lo < hi is
\* returned by condense_selections unchanged.
C8_ProperMinimalInputRoundTrips ==
    (condensed.called /\ IsCanonical(selections) /\ ProperRanges(selections)) =>
        ~condensed.panicked /\ condensed.v = selections

\* a minimal list of a proper range and a later individual was condensed
C8_Witness ==
    /\ condensed.called
    /\ Len(selections) >= 2
    /\ IsCanonical(selections)
    /\ ProperRanges(selections)
    /\ selections[1].variant = "Range"
    /\ selections[2].variant = "Individual"

(***************************************************************************)
(* C9                                                                      *)
(***************************************************************************)
\* C9: order independence.  The list condense_selections returned for a list
\* is the list it returns for every reordering of it, and parse returns for
\* a text what condensing the written elements in any order returns.
C9_OrderIndependence ==
    /\ condensed.called =>
           condense_selections(selections)
               = [panicked |-> condensed.panicked, v |-> condensed.v]
    /\ (raw.res = "Ok" /\ raw.value.sel = "Some" /\ parsed # Pending) =>
           \A p \in Orderings(Len(raw.value.v)) :
               parsed = ResOk(SelectionSome(
                            condense_selections(Permuted(raw.value.v, p)).v))

\* two separate elements held in descending order, returned ascending
C9_Witness ==
    /\ condensed.called
    /\ Len(selections) = 2
    /\ selections[1].start > selections[2].start
    /\ condensed.v = <<selections[2], selections[1]>>

(***************************************************************************)
(* C10                                                                     *)
(***************************************************************************)
NotInverted(e) == ~IsInverted(e)

\* C10: inverted-range elimination.  A written range with lo > hi is
\* accepted and kept unchanged by parse_raw and dropped by normalisation
\* without error; when every written element is an inverted range parse
\* returns Ok(Some([])), which contains no item.
C10_InvertedRangesDropped ==
    /\ (raw # Pending /\ MatchesSomeForm(input)) =>
           /\ raw.res = "Ok"
           /\ \A k \in 1..Len(Written(input)) :
                  IsInverted(Written(input)[k]) =>
                      raw.value.v[k] = Written(input)[k]
    /\ (parsed # Pending /\ MatchesSomeForm(input)) =>
           /\ parsed = ResOk(SelectionSome(
                  condense_selections(SelectSeq(Written(input), NotInverted)).v))
           /\ (\A k \in 1..Len(Written(input)) : IsInverted(Written(input)[k])) =>
                  /\ parsed = ResOk(SelectionSome(<<>>))
                  /\ \A i \in Items : ~contains_item(parsed.value, i)
    /\ condensed.called =>
           /\ ~condensed.panicked
           /\ condensed.v
                  = condense_selections(SelectSeq(selections, NotInverted)).v

\* a text of inverted ranges only: kept by parse_raw, emptied by parse
C10_Witness ==
    /\ raw.res = "Ok"
    /\ Len(raw.value.v) >= 1
    /\ \A k \in 1..Len(raw.value.v) : IsInverted(raw.value.v[k])
    /\ parsed = ResOk(SelectionSome(<<>>))

====
